---- MODULE Spec2Model ----
(***************************************************************************)
(* A model of nautobot_http_sd: the two programs of the repository,        *)
(* main.go (the HTTP service-discovery server) and nautobot_http_sd/main.go*)
(* (the same pipeline, printing the devices instead of serving them).      *)
(*                                                                         *)
(* Go values are modelled as follows.  A string that the program inspects  *)
(* character by character (an IP address) is a sequence of one-character   *)
(* strings; every other string is a TLA+ string.  A pointer is a sequence  *)
(* of length 0 (nil) or 1 (the pointee).  Standard output and the log are  *)
(* one sequence of strings, printed.                                       *)
(***************************************************************************)
EXTENDS Integers, Sequences, FiniteSets, TLC

VARIABLES
    binary,     \* which of the two programs runs
    env,        \* the process environment: variable name -> pointer to value
    dotenv,     \* the .env file: nil when missing, else a pointer to its variables
    queryDocs,  \* the file names in graphql_queries/, in directory order
    pc,         \* the position of main
    token,      \* main's local token
    url,        \* main's local url
    sent,       \* the requests received by the upstream, in order
    resp,       \* the result of client.Do
    body,       \* the result of ioutil.ReadAll on a 200 response
    response,   \* response.Data.Devices after json.Unmarshal
    idx,        \* the number of devices the range loop has consumed
    output,     \* main's local output
    jsonData,   \* main's local jsonData, captured by the handler
    conns,      \* the requests of the HTTP clients and their responses
    printed     \* everything written to standard output and the log

vars == <<binary, env, dotenv, queryDocs, pc, token, url, sent, resp, body, response,
          idx, output, jsonData, conns, printed>>

----------------------------------------------------------------------------
(* Bounds of the model *)

\* the longest device list of an upstream response
MaxDevices == 2
\* the number of HTTP clients' requests
MaxRequests == 2
\* the longest address of the normalization specification
MaxAddrLen == 3

----------------------------------------------------------------------------
(* Go values *)

Nil == <<>>
Ptr(x) == <<x>>
Deref(p) == p[1]

Digits == {"0", "1", "2", "3", "4", "5", "6", "7", "8", "9"}

\* net/http status codes, and the statuses the upstream of the model answers
StatusOK == 200
StatusUnauthorized == 401
Statuses == {StatusOK, StatusUnauthorized, 403, 500}

Binaries == {"main", "nautobot_http_sd"}

----------------------------------------------------------------------------
(* The environment *)

TokenVar == "NAUTOBOT_API_TOKEN"
URLVar == "NAUTOBOT_URL"
EnvVars == {TokenVar, URLVar}

GoodToken == "0123456789abcdef"
GoodURL == "https://nautobot.domain.tld/api/graphql/"
\* a URL that net/url cannot parse (it holds a control character)
BadURL == "https://nautobot.domain.tld/\\x7f"

\* the values a variable can have, in the environment or in the .env file
TokenValues == {Nil, Ptr(""), Ptr(GoodToken)}
URLValues == {Nil, Ptr(""), Ptr(GoodURL), Ptr(BadURL)}
Environments ==
    {(TokenVar :> t) @@ (URLVar :> u) : t \in TokenValues, u \in URLValues}

\* os.Getenv: the value, or "" when the variable is not set
Getenv(e, key) == IF e[key] = Nil THEN "" ELSE Deref(e[key])

\* godotenv.Load on a readable .env file: the file's variables are set
\* unless the environment has them already
LoadInto(e, file) ==
    [key \in EnvVars |-> IF e[key] # Nil THEN e[key] ELSE file[key]]

\* the .env file: missing, empty, or setting both variables (to values or
\* to empty strings)
DotenvFiles ==
    {Nil, Ptr([key \in EnvVars |-> Nil]), Ptr([key \in EnvVars |-> Ptr("")]),
     Ptr((TokenVar :> Ptr(GoodToken)) @@ (URLVar :> Ptr(GoodURL)))}

\* the query file main reads, and the directory listings of the model
queryFile == "query.gql"
OtherFile == "job1.gql"
Directories ==
    {<<>>, <<queryFile>>, <<OtherFile>>, <<OtherFile, queryFile>>}

\* os.ReadFile(queryFile) succeeds when the file is in the directory
FileExists(docs, name) == \E i \in 1..Len(docs) : docs[i] = name

\* http.NewRequest fails on a URL that does not parse
URLParses(u) == u # BadURL

----------------------------------------------------------------------------
(* Devices: the wire format decoded into the Device struct *)

Role(name) == [Name |-> name]
Location(name) == [Name |-> name]
IPAddress(address) == [Address |-> address]

Device(name, role, location, primaryIP) ==
    [Name |-> name, Role |-> role, Location |-> location, PrimaryIP |-> primaryIP]

CIDRAddress == <<"1","9","2",".","0",".","2",".","1","/","2","4">>
BareAddress == <<"1","0",".","0",".","0",".","5">>

\* the devices of the model's upstream: one that is emitted with a CIDR
\* suffix, one with an empty location, and one for each way a field can be
\* missing or empty
Devices ==
    { Device("sw1", Ptr(Role("switch")), Location("dc1"), Ptr(IPAddress(CIDRAddress))),
      Device("sw2", Ptr(Role("router")), Location(""), Ptr(IPAddress(BareAddress))),
      Device("sw3", Ptr(Role("")), Location("dc1"), Ptr(IPAddress(CIDRAddress))),
      Device("sw4", Nil, Location("dc2"), Ptr(IPAddress(BareAddress))),
      Device("sw5", Ptr(Role("switch")), Location("dc2"), Nil),
      Device("sw6", Ptr(Role("router")), Location("dc2"), Ptr(IPAddress(<<>>))) }

RECURSIVE SeqsUpTo(_, _)
SeqsUpTo(S, n) ==
    IF n = 0 THEN {<<>>}
    ELSE LET shorter == SeqsUpTo(S, n - 1)
         IN  shorter \cup {Append(s, x) : s \in {t \in shorter : Len(t) = n - 1}, x \in S}

DeviceLists == SeqsUpTo(Devices, MaxDevices)

----------------------------------------------------------------------------
(* The upstream's answers *)

\* a response body: text that is no JSON, a body whose read fails, or a JSON
\* document {"data": {"devices": ...}} whose devices member is absent (or
\* null) or a list
TextBody == [kind |-> "text", present |-> FALSE, devices |-> <<>>]
Bodies ==
    {[kind |-> k, present |-> FALSE, devices |-> <<>>] : k \in {"text", "unreadable", "json"}}
    \cup {[kind |-> "json", present |-> TRUE, devices |-> ds] : ds \in DeviceLists}

NoResp == [err |-> FALSE, StatusCode |-> 0, Body |-> TextBody]
TransportError == [err |-> TRUE, StatusCode |-> 0, Body |-> TextBody]
Responses ==
    {TransportError}
    \cup {[err |-> FALSE, StatusCode |-> s, Body |-> TextBody] : s \in Statuses \ {StatusOK}}
    \cup {[err |-> FALSE, StatusCode |-> StatusOK, Body |-> b] : b \in Bodies}

\* resp.Status
StatusText(s) ==
    CASE s = 200 -> "200 OK"
      [] s = 401 -> "401 Unauthorized"
      [] s = 403 -> "403 Forbidden"
      [] s = 500 -> "500 Internal Server Error"
      [] OTHER -> "000"

\* json.Unmarshal(body, &response): an error for a body that is no JSON,
\* else response.Data.Devices, which stays nil (length 0) when the member is
\* absent or null
UnmarshalErr(b) == b.kind # "json"
UnmarshalDevices(b) == IF b.present THEN b.devices ELSE Nil

\* a mutant of NoDevices: the check is skipped
NoDevices_never(devices) == FALSE

\* response.Data.Devices == nil || len(response.Data.Devices) == 0
NoDevices(devices) == Len(devices) = 0

----------------------------------------------------------------------------
(* The target transformation *)

\* a mutant of MatchStart: the expression /.* , without the digits
RECURSIVE MatchStart_anySlash(_, _)
MatchStart_anySlash(s, from) ==
    IF from + 1 > Len(s) THEN 0
    ELSE IF s[from] = "/" THEN from
    ELSE MatchStart_anySlash(s, from + 1)

\* the first match of the regular expression /[0-9]+.* in s at or after
\* position from: its first position, or 0 when there is none
RECURSIVE MatchStart(_, _)
MatchStart(s, from) ==
    IF from + 1 > Len(s) THEN 0
    ELSE IF s[from] = "/" /\ s[from + 1] \in Digits THEN from
    ELSE MatchStart(s, from + 1)

\* the position after the match that starts before position k: [0-9]+ and
\* .* are greedy and . matches every character but a newline
RECURSIVE MatchEnd(_, _)
MatchEnd(s, k) ==
    IF k > Len(s) THEN k
    ELSE IF s[k] = "\n" THEN k
    ELSE MatchEnd(s, k + 1)

\* re.ReplaceAllString(s, ""): every match is removed
RECURSIVE ReplaceAllString(_)
ReplaceAllString(s) ==
    LET i == MatchStart(s, 1)
    IN  IF i = 0 THEN s
        ELSE LET j == MatchEnd(s, i + 2)
             IN  SubSeq(s, 1, i - 1) \o ReplaceAllString(SubSeq(s, j, Len(s)))

JobLabel == "__meta_prometheus_job"
DatacenterLabel == "__meta_datacenter"

\* the condition of the if statement in the range loop
Emits(device) ==
    /\ device.PrimaryIP # Nil
    /\ device.Role # Nil
    /\ Deref(device.Role).Name # ""

\* a mutant of Entry: the target keeps its CIDR suffix
Entry_rawAddress(device) ==
    [targets |-> <<Deref(device.PrimaryIP).Address>>,
     labels |-> (JobLabel :> Deref(device.Role).Name)
                @@ (DatacenterLabel :> device.Location.Name)]

\* the entry built for a device
Entry(device) ==
    [targets |-> <<ReplaceAllString(Deref(device.PrimaryIP).Address)>>,
     labels |-> (JobLabel :> Deref(device.Role).Name)
                @@ (DatacenterLabel :> device.Location.Name)]

\* a mutant of AppendEntry: the entry is put first
AppendEntry_prepend(out, entry) == <<entry>> \o out

\* output = append(output, entry)
AppendEntry(out, entry) == Append(out, entry)

\* one iteration of the range loop on output
RangeBody(out, device) ==
    IF Emits(device) THEN AppendEntry(out, Entry(device)) ELSE out

----------------------------------------------------------------------------
(* Serialization *)

\* the text of one entry under json.MarshalIndent(output, "", "  "): the keys
\* of a map are written in sorted order
MarshalEntry(entry) ==
    <<"  {\n    \"labels\": {\n      \"__meta_datacenter\": \"",
      entry.labels[DatacenterLabel],
      "\",\n      \"__meta_prometheus_job\": \"",
      entry.labels[JobLabel],
      "\"\n    },\n    \"targets\": [\n      \"">>
    \o entry.targets[1]
    \o <<"\"\n    ]\n  }">>

RECURSIVE MarshalEntries(_)
MarshalEntries(out) ==
    IF Len(out) = 1 THEN MarshalEntry(out[1])
    ELSE MarshalEntry(out[1]) \o <<",\n">> \o MarshalEntries(Tail(out))

\* json.MarshalIndent(output, "", "  "): a nil slice is written as null
MarshalIndent(out) ==
    IF Len(out) = 0 THEN <<"null">>
    ELSE <<"[\n">> \o MarshalEntries(out) \o <<"\n]">>

----------------------------------------------------------------------------
(* The messages of the two programs *)

LoadErrorMsg == "Error loading .env file:"
TokenErrorMsg == "Error: NAUTOBOT_API_TOKEN environment variable is not set"
URLErrorMsg == "Error: NAUTOBOT_URL environment variable is not set"
ReadFileErrorMsg == "Error reading query file:"
NewRequestErrorMsg == "Error creating request:"
DoErrorMsg == "Error making request:"
StatusMsg(status) == "HTTP Response Status: " \o StatusText(status)
ErrorResponseMsg == "Error Response: internal error"
InvalidTokenMsg == "Error: Invalid token provided."
UnexpectedErrorMsg == "Error: An unexpected error occurred."
ReadAllErrorMsg == "Error reading response body:"
UnmarshalErrorMsg == "Error decoding JSON:"
NoDevicesMsg(bin) ==
    IF bin = "main"
    THEN "No devices found in response. Check your GraphQL query or Nautobot instance."
    ELSE "No devices found in response. Double check your GraphQL and/or Nautobot instance"
ServingMsg == "Serving on :6645"
ListenErrorMsg == "Error starting server:"

Printed(msg) == \E i \in 1..Len(printed) : printed[i] = msg

\* fmt.Println and return
Fail(msg) ==
    /\ printed' = Append(printed, msg)
    /\ pc' = "Exited"

----------------------------------------------------------------------------
(* The HTTP clients' requests *)

Conns == 1..MaxRequests
RootPath == <<"/">>
MetricsPath == <<"/", "m", "e", "t", "r", "i", "c", "s">>
\* the requests of the model's clients: two paths and two methods
Requests ==
    {[method |-> "GET", path |-> RootPath], [method |-> "POST", path |-> MetricsPath]}

IdleConn ==
    [phase |-> "idle", path |-> <<>>, method |-> "", header |-> Nil,
     status |-> 0, body |-> <<>>]

\* the pattern main registers with http.HandleFunc
Pattern == <<"/">>

\* a mutant of Matches: the pattern matches its own path only
Matches_exact(pattern, path) == path = pattern

\* ServeMux: a pattern that ends in a slash matches every path it is a
\* prefix of
Matches(pattern, path) ==
    /\ Len(pattern) <= Len(path)
    /\ SubSeq(path, 1, Len(pattern)) = pattern

----------------------------------------------------------------------------
(* The initial states *)

Init ==
    /\ binary \in Binaries
    /\ env \in Environments
    /\ dotenv \in DotenvFiles
    /\ queryDocs \in Directories
    /\ pc = "Load"
    /\ token = ""
    /\ url = ""
    /\ sent = <<>>
    /\ resp = NoResp
    /\ body = TextBody
    /\ response = Nil
    /\ idx = 0
    /\ output = Nil
    /\ jsonData = <<>>
    /\ conns = [c \in Conns |-> IdleConn]
    /\ printed = <<>>

----------------------------------------------------------------------------
(* The steps of main, shared by the two programs up to the range loop *)

\* a mutant of LoadFailed: the error of godotenv.Load is ignored
LoadFailed_never(file) == FALSE

\* err != nil after godotenv.Load(): the .env file is missing
LoadFailed(file) == file = Nil

\* the environment after godotenv.Load()
Loaded(e, file) == IF file = Nil THEN e ELSE LoadInto(e, Deref(file))

LoadEnv ==
    /\ pc = "Load"
    /\ IF LoadFailed(dotenv)
       THEN /\ Fail(LoadErrorMsg)
            /\ UNCHANGED env
       ELSE /\ env' = Loaded(env, dotenv)
            /\ pc' = "GetToken"
            /\ UNCHANGED printed
    /\ UNCHANGED <<binary, dotenv, queryDocs, token, url, sent, resp, body, response,
                   idx, output, jsonData, conns>>

\* a mutant of NotSet: the empty value is accepted
NotSet_never(value) == FALSE

\* token == "", url == ""
NotSet(value) == value = ""

GetToken ==
    /\ pc = "GetToken"
    /\ token' = Getenv(env, TokenVar)
    /\ IF NotSet(token')
       THEN Fail(TokenErrorMsg)
       ELSE pc' = "GetURL" /\ UNCHANGED printed
    /\ UNCHANGED <<binary, env, dotenv, queryDocs, url, sent, resp, body, response,
                   idx, output, jsonData, conns>>

GetURL ==
    /\ pc = "GetURL"
    /\ url' = Getenv(env, URLVar)
    /\ IF NotSet(url')
       THEN Fail(URLErrorMsg)
       ELSE pc' = "ReadFile" /\ UNCHANGED printed
    /\ UNCHANGED <<binary, env, dotenv, queryDocs, token, sent, resp, body, response,
                   idx, output, jsonData, conns>>

ReadFile ==
    /\ pc = "ReadFile"
    /\ IF FileExists(queryDocs, queryFile)
       THEN pc' = "NewRequest" /\ UNCHANGED printed
       ELSE Fail(ReadFileErrorMsg)
    /\ UNCHANGED <<binary, env, dotenv, queryDocs, token, url, sent, resp, body,
                   response, idx, output, jsonData, conns>>

NewRequest ==
    /\ pc = "NewRequest"
    /\ IF URLParses(url)
       THEN pc' = "Do" /\ UNCHANGED printed
       ELSE Fail(NewRequestErrorMsg)
    /\ UNCHANGED <<binary, env, dotenv, queryDocs, token, url, sent, resp, body,
                   response, idx, output, jsonData, conns>>

\* the request main builds
Request ==
    [Method |-> "POST", URL |-> url, Authorization |-> "Token " \o token,
     ContentType |-> "application/json", query |-> queryFile]

Do ==
    /\ pc = "Do"
    /\ sent' = Append(sent, Request)
    /\ \E r \in Responses :
          /\ resp' = r
          /\ IF r.err
             THEN Fail(DoErrorMsg)
             ELSE pc' = "CheckStatus" /\ UNCHANGED printed
    /\ UNCHANGED <<binary, env, dotenv, queryDocs, token, url, body, response, idx,
                   output, jsonData, conns>>

\* a mutant of NotOK: only the status 401 is an error
NotOK_only401(status) == status = StatusUnauthorized

\* a mutant of IsUnauthorized: the status 403 is an invalid token too
IsUnauthorized_or403(status) == status \in {StatusUnauthorized, 403}

\* resp.StatusCode != http.StatusOK
NotOK(status) == status # StatusOK

\* resp.StatusCode == http.StatusUnauthorized
IsUnauthorized(status) == status = StatusUnauthorized

CheckStatus ==
    /\ pc = "CheckStatus"
    /\ IF NotOK(resp.StatusCode)
       THEN /\ printed' = printed \o
                   <<StatusMsg(resp.StatusCode), ErrorResponseMsg,
                     IF IsUnauthorized(resp.StatusCode)
                     THEN InvalidTokenMsg ELSE UnexpectedErrorMsg>>
            /\ pc' = "Exited"
       ELSE pc' = "ReadAll" /\ UNCHANGED printed
    /\ UNCHANGED <<binary, env, dotenv, queryDocs, token, url, sent, resp, body,
                   response, idx, output, jsonData, conns>>

ReadAll ==
    /\ pc = "ReadAll"
    /\ IF resp.Body.kind = "unreadable"
       THEN Fail(ReadAllErrorMsg) /\ UNCHANGED body
       ELSE body' = resp.Body /\ pc' = "Unmarshal" /\ UNCHANGED printed
    /\ UNCHANGED <<binary, env, dotenv, queryDocs, token, url, sent, resp, response,
                   idx, output, jsonData, conns>>

Unmarshal ==
    /\ pc = "Unmarshal"
    /\ IF UnmarshalErr(body)
       THEN Fail(UnmarshalErrorMsg) /\ UNCHANGED response
       ELSE /\ response' = UnmarshalDevices(body)
            /\ pc' = "CheckDevices"
            /\ UNCHANGED printed
    /\ UNCHANGED <<binary, env, dotenv, queryDocs, token, url, sent, resp, body, idx,
                   output, jsonData, conns>>

CheckDevices ==
    /\ pc = "CheckDevices"
    /\ IF NoDevices(response)
       THEN Fail(NoDevicesMsg(binary))
       ELSE pc' = "Range" /\ UNCHANGED printed
    /\ UNCHANGED <<binary, env, dotenv, queryDocs, token, url, sent, resp, body,
                   response, idx, output, jsonData, conns>>

----------------------------------------------------------------------------
(* main.go: the range loop, the serialization and the server *)

RangeDevices ==
    /\ pc = "Range"
    /\ binary = "main"
    /\ idx < Len(response)
    /\ output' = RangeBody(output, response[idx + 1])
    /\ idx' = idx + 1
    /\ UNCHANGED <<binary, env, dotenv, queryDocs, pc, token, url, sent, resp, body,
                   response, jsonData, conns, printed>>

RangeEnd ==
    /\ pc = "Range"
    /\ binary = "main"
    /\ idx = Len(response)
    /\ pc' = "MarshalIndent"
    /\ UNCHANGED <<binary, env, dotenv, queryDocs, token, url, sent, resp, body,
                   response, idx, output, jsonData, conns, printed>>

\* json.MarshalIndent cannot fail on strings; http.HandleFunc registers the
\* closure over jsonData
Marshal ==
    /\ pc = "MarshalIndent"
    /\ jsonData' = MarshalIndent(output)
    /\ pc' = "ListenAndServe"
    /\ UNCHANGED <<binary, env, dotenv, queryDocs, token, url, sent, resp, body,
                   response, idx, output, conns, printed>>

\* http.ListenAndServe(":6645", nil) either binds the port and serves, or
\* returns an error
ListenAndServe ==
    /\ pc = "ListenAndServe"
    /\ \E bound \in BOOLEAN :
          IF bound
          THEN /\ printed' = Append(printed, ServingMsg)
               /\ pc' = "Serving"
          ELSE /\ printed' = printed \o <<ServingMsg, ListenErrorMsg>>
               /\ pc' = "Exited"
    /\ UNCHANGED <<binary, env, dotenv, queryDocs, token, url, sent, resp, body,
                   response, idx, output, jsonData, conns>>

\* the server reads a request and the DefaultServeMux dispatches it: to the
\* handler of the pattern, or to NotFound
Serve(c) ==
    /\ pc = "Serving"
    /\ conns[c].phase = "idle"
    /\ \E r \in Requests :
          conns' = [conns EXCEPT ![c] =
              IF Matches(Pattern, r.path)
              THEN [@ EXCEPT !.phase = "handler", !.path = r.path, !.method = r.method]
              ELSE [@ EXCEPT !.phase = "done", !.path = r.path, !.method = r.method,
                             !.header = Ptr("text/plain; charset=utf-8"),
                             !.status = 404,
                             !.body = <<"404 page not found\n">>]]
    /\ UNCHANGED <<binary, env, dotenv, queryDocs, pc, token, url, sent, resp, body,
                   response, idx, output, jsonData, printed>>

\* w.Header().Set("Content-Type", "application/json")
HandlerSetHeader(c) ==
    /\ pc = "Serving"
    /\ conns[c].phase = "handler"
    /\ conns' = [conns EXCEPT ![c].phase = "headerSet",
                              ![c].header = Ptr("application/json")]
    /\ UNCHANGED <<binary, env, dotenv, queryDocs, pc, token, url, sent, resp, body,
                   response, idx, output, jsonData, printed>>

\* w.Write(jsonData): the first Write sends the status 200
HandlerWrite(c) ==
    /\ pc = "Serving"
    /\ conns[c].phase = "headerSet"
    /\ conns' = [conns EXCEPT ![c].phase = "done",
                              ![c].status = StatusOK,
                              ![c].body = jsonData]
    /\ UNCHANGED <<binary, env, dotenv, queryDocs, pc, token, url, sent, resp, body,
                   response, idx, output, jsonData, printed>>

----------------------------------------------------------------------------
(* nautobot_http_sd/main.go: the range loop prints the devices *)

PrintedDevice(device) ==
    <<"Device Name: " \o device.Name, "Location: " \o device.Location.Name>>
    \o (IF device.Role # Nil /\ Deref(device.Role).Name # ""
        THEN <<"Role: " \o Deref(device.Role).Name>> ELSE <<>>)
    \o (IF device.PrimaryIP # Nil
        THEN <<"Primary IP: ">> \o Deref(device.PrimaryIP).Address ELSE <<>>)
    \o <<"">>

PrintDevices ==
    /\ pc = "Range"
    /\ binary = "nautobot_http_sd"
    /\ idx < Len(response)
    /\ printed' = printed \o PrintedDevice(response[idx + 1])
    /\ idx' = idx + 1
    /\ UNCHANGED <<binary, env, dotenv, queryDocs, pc, token, url, sent, resp, body,
                   response, output, jsonData, conns>>

PrintEnd ==
    /\ pc = "Range"
    /\ binary = "nautobot_http_sd"
    /\ idx = Len(response)
    /\ pc' = "Exited"
    /\ UNCHANGED <<binary, env, dotenv, queryDocs, token, url, sent, resp, body,
                   response, idx, output, jsonData, conns, printed>>

----------------------------------------------------------------------------
(* The specification of the two programs *)

Next ==
    \/ LoadEnv
    \/ GetToken
    \/ GetURL
    \/ ReadFile
    \/ NewRequest
    \/ Do
    \/ CheckStatus
    \/ ReadAll
    \/ Unmarshal
    \/ CheckDevices
    \/ RangeDevices
    \/ RangeEnd
    \/ Marshal
    \/ ListenAndServe
    \/ \E c \in Conns : Serve(c)
    \/ \E c \in Conns : HandlerSetHeader(c)
    \/ \E c \in Conns : HandlerWrite(c)
    \/ PrintDevices
    \/ PrintEnd

Spec == Init /\ [][Next]_vars

----------------------------------------------------------------------------
(* The specification of the address normalization: main.go at its range    *)
(* loop, over one emitted device whose address is any string of at most    *)
(* MaxAddrLen characters, or one of the two addresses of the model         *)

AddrAlphabet == {"1", "2", ".", "/", "a", "\n"}
TenCIDRAddress == BareAddress \o <<"/", "2", "4">>
Addresses ==
    SeqsUpTo(AddrAlphabet, MaxAddrLen) \cup {CIDRAddress, BareAddress, TenCIDRAddress}

NormDevice(address) ==
    Device("sw1", Ptr(Role("switch")), Location("dc1"), Ptr(IPAddress(address)))

NormInit ==
    /\ binary = "main"
    /\ env = (TokenVar :> Ptr(GoodToken)) @@ (URLVar :> Ptr(GoodURL))
    /\ dotenv = Ptr([key \in EnvVars |-> Nil])
    /\ queryDocs = <<queryFile>>
    /\ pc = "Range"
    /\ token = GoodToken
    /\ url = GoodURL
    /\ \E address \in Addresses :
          LET b == [kind |-> "json", present |-> TRUE,
                    devices |-> <<NormDevice(address)>>]
          IN  /\ resp = [err |-> FALSE, StatusCode |-> StatusOK, Body |-> b]
              /\ body = b
              /\ response = b.devices
    /\ sent = <<[Method |-> "POST", URL |-> GoodURL,
                 Authorization |-> "Token " \o GoodToken,
                 ContentType |-> "application/json", query |-> queryFile]>>
    /\ idx = 0
    /\ output = Nil
    /\ jsonData = <<>>
    /\ conns = [c \in Conns |-> IdleConn]
    /\ printed = <<>>

NormNext ==
    \/ RangeDevices
    \/ RangeEnd

NormSpec == NormInit /\ [][NormNext]_vars

----------------------------------------------------------------------------
(* Notions of the properties *)

\* no HTTP client's request has been read
NoRequestServed == \A c \in Conns : conns[c].phase = "idle"

\* the positions of main after its check of the response status
AfterCheckStatus ==
    {"ReadAll", "Unmarshal", "CheckDevices", "Range", "MarshalIndent",
     "ListenAndServe", "Serving"}

\* the positions of main.go from its range loop on
FromRange == {"Range", "MarshalIndent", "ListenAndServe", "Serving"}

\* the documents main has sent to the upstream, in order
LoadedDocs == [i \in 1..Len(sent) |-> sent[i].query]

\* the devices the range loop has consumed
Consumed == SubSeq(response, 1, idx)

Min(S) == CHOOSE x \in S : \A y \in S : x <= y

\* an address without its network prefix: what precedes the first slash
\* that a digit follows
Normalized(a) ==
    LET hits == {i \in 1..(Len(a) - 1) : a[i] = "/" /\ a[i + 1] \in Digits}
    IN  IF hits = {} THEN a ELSE SubSeq(a, 1, Min(hits) - 1)

HasChar(a, ch) == \E i \in 1..Len(a) : a[i] = ch

\* the entry the specification gives for a device
TargetOf(device) ==
    [targets |-> <<Normalized(Deref(device.PrimaryIP).Address)>>,
     labels |-> (JobLabel :> Deref(device.Role).Name)
                @@ (DatacenterLabel :> device.Location.Name)]

----------------------------------------------------------------------------
(* C1 *)

\* the validity the claim states: a non-empty address and a non-empty role name
ClaimedValid(device) ==
    /\ device.PrimaryIP # Nil
    /\ Deref(device.PrimaryIP).Address # <<>>
    /\ device.Role # Nil
    /\ Deref(device.Role).Name # ""

\* C1: main.go emits a target for a record if and only if the record's
\* primary address is non-empty, its role is non-null and its role name is
\* non-empty: after every iteration of the range loop, the output has one
\* entry for each consumed record that is valid in this sense, and no other.
C1_EmitsIffAddressAndRoleNonEmpty ==
    (binary = "main" /\ pc \in FromRange) =>
        Len(output) = Len(SelectSeq(Consumed, ClaimedValid))

----------------------------------------------------------------------------
(* C2 *)

\* C2: every entry of the output has exactly one target, the normalized
\* primary address of a consumed record that passes the filter, and exactly
\* the two labels __meta_prometheus_job, the record's role name, and
\* __meta_datacenter, the record's location name; and every consumed record
\* that passes the filter has its entry, also when its location name is empty.
C2_EntryShape ==
    (binary = "main" /\ pc \in FromRange) =>
        /\ \A k \in 1..Len(output) :
              /\ Len(output[k].targets) = 1
              /\ DOMAIN output[k].labels = {JobLabel, DatacenterLabel}
              /\ \E i \in 1..idx :
                    /\ Emits(response[i])
                    /\ output[k].targets[1] = Normalized(Deref(response[i].PrimaryIP).Address)
                    /\ output[k].labels[JobLabel] = Deref(response[i].Role).Name
                    /\ output[k].labels[DatacenterLabel] = response[i].Location.Name
        /\ \A i \in 1..idx :
              Emits(response[i]) => \E k \in 1..Len(output) : output[k] = TargetOf(response[i])

\* a served snapshot of two targets: one with its CIDR suffix removed, one
\* with an empty location name
C2_Witness ==
    /\ pc = "Serving"
    /\ Len(output) = 2
    /\ \E k \in 1..2 : output[k].labels[DatacenterLabel] = ""
    /\ \E k \in 1..2 : output[k].targets = <<<<"1","9","2",".","0",".","2",".","1">>>>

----------------------------------------------------------------------------
(* C3 *)

\* C3: for an address without a newline, the target of the emitted entry is
\* the address up to the first slash that a digit follows; an address
\* without a slash is unchanged; 10.0.0.5/24 gives 10.0.0.5; and normalizing
\* the target again returns it unchanged.
C3_Normalization ==
    (pc = "Range" /\ idx = 1 /\ ~HasChar(Deref(response[1].PrimaryIP).Address, "\n")) =>
        LET a == Deref(response[1].PrimaryIP).Address
            t == output[1].targets[1]
        IN  /\ t = Normalized(a)
            /\ ~HasChar(a, "/") => t = a
            /\ a = TenCIDRAddress => t = BareAddress
            /\ ReplaceAllString(t) = t

\* the loop has normalized 10.0.0.5/24
C3_Witness ==
    /\ pc = "Range"
    /\ idx = 1
    /\ Deref(response[1].PrimaryIP).Address = TenCIDRAddress
    /\ output[1].targets[1] = BareAddress

----------------------------------------------------------------------------
(* C4 *)

----------------------------------------------------------------------------
(* C5 *)

\* the upstream has answered 200 with a JSON body whose device list is
\* empty or absent
EmptyDeviceList ==
    /\ ~resp.err
    /\ resp.StatusCode = StatusOK
    /\ resp.Body.kind = "json"
    /\ Len(UnmarshalDevices(resp.Body)) = 0

\* the configuration is complete and the directory holds no query document
ZeroDocuments ==
    /\ token # ""
    /\ url # ""
    /\ queryDocs = <<>>

\* C5, as claimed: an empty result does not end the process.
C5_EmptyResultTolerated ==
    (EmptyDeviceList \/ ZeroDocuments) => pc # "Exited"

\* C5, amended: an empty result is fatal.  With no query document the
\* process ends at the read of the query file, before any request to the
\* upstream; with an empty or absent device list it ends at the check of the
\* list; in both cases it prints the failure and serves no request.
C5_EmptyResultFatal ==
    /\ ZeroDocuments =>
          /\ pc \in {"ReadFile", "Exited"}
          /\ sent = <<>>
          /\ pc = "Exited" => Printed(ReadFileErrorMsg)
    /\ EmptyDeviceList =>
          /\ pc \in {"CheckStatus", "ReadAll", "Unmarshal", "CheckDevices", "Exited"}
          /\ pc = "Exited" => Printed(NoDevicesMsg(binary))
    /\ (ZeroDocuments \/ EmptyDeviceList) => NoRequestServed

\* main.go has ended on an empty device list
C5_Witness ==
    /\ binary = "main"
    /\ pc = "Exited"
    /\ EmptyDeviceList
    /\ resp.Body.present
    /\ Printed(NoDevicesMsg("main"))

----------------------------------------------------------------------------
(* C6 *)

\* the request to the upstream has failed: in transport, by its status, or
\* by a body that cannot be read or decoded
NonOKStatus == ~resp.err /\ resp.StatusCode \notin {0, StatusOK}
UndecodableBody ==
    ~resp.err /\ resp.StatusCode = StatusOK /\ resp.Body.kind \in {"text", "unreadable"}
UpstreamFailure == resp.err \/ NonOKStatus \/ UndecodableBody

\* C6, as claimed: an upstream failure never ends the process.
C6_UpstreamFailureTolerated ==
    UpstreamFailure => pc # "Exited"

\* C6, amended: an upstream failure is fatal.  The process prints the
\* failure and ends: at once on a transport failure, at the check of the
\* status on a non-200 status (printing the status and the body), at the
\* read or the decoding on a bad body; it never reaches the range loop and
\* serves no request.
C6_UpstreamFailureFatal ==
    /\ resp.err => pc = "Exited" /\ Printed(DoErrorMsg)
    /\ NonOKStatus =>
          /\ pc \in {"CheckStatus", "Exited"}
          /\ pc = "Exited" =>
                Printed(StatusMsg(resp.StatusCode)) /\ Printed(ErrorResponseMsg)
    /\ UndecodableBody =>
          /\ pc \in {"CheckStatus", "ReadAll", "Unmarshal", "Exited"}
          /\ pc = "Exited" => Printed(ReadAllErrorMsg) \/ Printed(UnmarshalErrorMsg)
    /\ UpstreamFailure => NoRequestServed

\* main.go has ended on a status 500, the only answer of its only document
C6_Witness ==
    /\ binary = "main"
    /\ pc = "Exited"
    /\ resp.StatusCode = 500
    /\ Len(sent) = 1
    /\ Printed("HTTP Response Status: 500 Internal Server Error")

----------------------------------------------------------------------------
(* C7 *)

\* the check of the status is behind
StatusChecked == ~resp.err /\ resp.StatusCode # 0 /\ pc # "CheckStatus"

\* C7: the invalid-token message is printed exactly when the checked status
\* is 401, the unexpected-error message exactly when it is neither 200 nor
\* 401, both end the process, and the positions after the check are reached
\* exactly with the status 200, which prints neither message.
C7_StatusClassification ==
    /\ Printed(InvalidTokenMsg) <=> (StatusChecked /\ resp.StatusCode = StatusUnauthorized)
    /\ Printed(UnexpectedErrorMsg) <=>
          (StatusChecked /\ resp.StatusCode \notin {StatusOK, StatusUnauthorized})
    /\ (Printed(InvalidTokenMsg) \/ Printed(UnexpectedErrorMsg)) => pc = "Exited"
    /\ pc \in AfterCheckStatus => resp.StatusCode = StatusOK
    /\ (StatusChecked /\ resp.StatusCode = StatusOK) =>
          /\ ~Printed(StatusMsg(StatusOK))
          /\ pc \in AfterCheckStatus \/ pc = "Exited"

\* a status 401 has been classified
C7_Witness ==
    /\ pc = "Exited"
    /\ resp.StatusCode = StatusUnauthorized
    /\ Printed(InvalidTokenMsg)
    /\ ~Printed(UnexpectedErrorMsg)

----------------------------------------------------------------------------
(* C8 *)

----------------------------------------------------------------------------
(* C9 *)

\* C9: once the .env file is loaded, an empty NAUTOBOT_API_TOKEN keeps main
\* at or before its check of the token, and an empty NAUTOBOT_URL at or
\* before its check of the URL, or ended; no request is sent to the upstream
\* and none is served.
C9_MissingConfigFatal ==
    pc # "Load" =>
        /\ Getenv(env, TokenVar) = "" =>
              pc \in {"GetToken", "Exited"} /\ sent = <<>> /\ NoRequestServed
        /\ Getenv(env, URLVar) = "" =>
              pc \in {"GetToken", "GetURL", "Exited"} /\ sent = <<>> /\ NoRequestServed

\* main has ended on an empty NAUTOBOT_URL, the token being set
C9_Witness ==
    /\ pc = "Exited"
    /\ Getenv(env, TokenVar) # ""
    /\ env[URLVar] = Ptr("")
    /\ Printed(URLErrorMsg)

----------------------------------------------------------------------------
(* C10 *)

\* C10: when the .env file is missing, main ends at the load, printing the
\* error, whatever the environment holds: no request is sent to the upstream
\* and none is served; so main serves only when the file was loaded.
C10_DotenvGate ==
    /\ (dotenv = Nil /\ pc # "Load") =>
          /\ pc = "Exited"
          /\ printed = <<LoadErrorMsg>>
          /\ sent = <<>>
          /\ NoRequestServed
    /\ pc = "Serving" => dotenv # Nil

\* main has ended on the missing .env file with both variables set in the
\* environment
C10_Witness ==
    /\ dotenv = Nil
    /\ pc = "Exited"
    /\ env[TokenVar] = Ptr(GoodToken)
    /\ env[URLVar] = Ptr(GoodURL)

====
